---------------------------- MODULE Spec2Model ----------------------------
(***************************************************************************)
(* S3DB: a document store over an S3 bucket (put/get/update/delete/list/   *)
(* exists/copy/move).  Object keys are sequences of one-character strings, *)
(* so that endsWith, String.replace and path.join are modelled by what     *)
(* they do on characters.  Object bodies are sequences of JSON tokens, so  *)
(* that JSON.stringify and JSON.parse are a printer and a parser.          *)
(***************************************************************************)
EXTENDS Naturals, Sequences, FiniteSets

VARIABLES bucket, call, written, peer, moments

vars == <<bucket, call, written, peer, moments>>

-----------------------------------------------------------------------------
(* JavaScript string primitives on character sequences                     *)

Slash == <<"/">>

DotJson == <<".", "j", "s", "o", "n">>

\* String.prototype.startsWith
StartsWith(s, p) == Len(p) <= Len(s) /\ SubSeq(s, 1, Len(p)) = p

\* String.prototype.endsWith
EndsWith(s, p) == Len(p) <= Len(s) /\ SubSeq(s, Len(s) - Len(p) + 1, Len(s)) = p

\* String.prototype.indexOf, 1-based; 0 when p does not occur in s
IndexOf(s, p) ==
  LET hits == {i \in 1..(Len(s) + 1) : i + Len(p) - 1 <= Len(s)
                                       /\ SubSeq(s, i, i + Len(p) - 1) = p}
  IN IF hits = {} THEN 0 ELSE CHOOSE i \in hits : \A j \in hits : i <= j

\* String.prototype.replace with a string pattern: the FIRST occurrence only,
\* wherever it is
Replace(s, p, r) ==
  LET i == IndexOf(s, p)
  IN IF i = 0 THEN s
     ELSE SubSeq(s, 1, i - 1) \o r \o SubSeq(s, i + Len(p), Len(s))

\* s.slice(0, -1)
DropLast(s) == SubSeq(s, 1, Len(s) - 1)

-----------------------------------------------------------------------------
(* Node's posix path.join, which joinPath delegates to                     *)

\* the '/'-separated segments of s, empty ones included
RECURSIVE Split(_)
Split(s) ==
  LET i == IndexOf(s, Slash)
  IN IF i = 0 THEN <<s>>
     ELSE <<SubSeq(s, 1, i - 1)>> \o Split(SubSeq(s, i + 1, Len(s)))

\* normalizeString: drops empty and '.' segments, resolves '..' against the
\* segment before it, keeps a leading '..' only when allowAboveRoot
RECURSIVE NormalizeSegments(_, _, _)
NormalizeSegments(segs, acc, allowAboveRoot) ==
  IF segs = << >> THEN acc
  ELSE LET seg == Head(segs)
           rest == Tail(segs)
       IN IF seg = << >> \/ seg = <<".">>
            THEN NormalizeSegments(rest, acc, allowAboveRoot)
          ELSE IF seg = <<".", ".">>
            THEN IF acc # << >> /\ acc[Len(acc)] # <<".", ".">>
                   THEN NormalizeSegments(rest, DropLast(acc), allowAboveRoot)
                 ELSE IF allowAboveRoot
                   THEN NormalizeSegments(rest, Append(acc, seg), allowAboveRoot)
                 ELSE NormalizeSegments(rest, acc, allowAboveRoot)
          ELSE NormalizeSegments(rest, Append(acc, seg), allowAboveRoot)

RECURSIVE JoinSegments(_)
JoinSegments(segs) ==
  IF segs = << >> THEN << >>
  ELSE IF Len(segs) = 1 THEN segs[1]
  ELSE segs[1] \o Slash \o JoinSegments(Tail(segs))

\* path.posix.normalize
Normalize(p) ==
  IF p = << >> THEN <<".">>
  ELSE LET isAbsolute == p[1] = "/"
           trailingSeparator == p[Len(p)] = "/"
           body == JoinSegments(NormalizeSegments(Split(p), << >>, ~isAbsolute))
       IN IF body = << >>
            THEN IF isAbsolute THEN Slash
                 ELSE IF trailingSeparator THEN <<".", "/">> ELSE <<".">>
          ELSE (IF isAbsolute THEN Slash ELSE << >>) \o body
               \o (IF trailingSeparator THEN Slash ELSE << >>)

\* path.posix.join of two parts: empty parts are skipped, the rest joined with
\* '/' and normalized
PathJoin(a, b) ==
  IF a = << >> /\ b = << >> THEN <<".">>
  ELSE IF a = << >> THEN Normalize(b)
  ELSE IF b = << >> THEN Normalize(a)
  ELSE Normalize(a \o Slash \o b)

joinPath(a, b) == PathJoin(a, b)

\* an extension step that appends '.json' whatever the key ends in
ensureJsonExtensionAlways(key) == key \o DotJson

ensureJsonExtension(key) ==
  IF ~EndsWith(key, DotJson) THEN key \o DotJson ELSE key

-----------------------------------------------------------------------------
(* JSON values, JSON.stringify and JSON.parse                              *)
(* A value is a record [t, s, f]: t its type, s the text of a scalar, f    *)
(* the members of an object (a function from member names to values).      *)
(* A body is a sequence of tokens [k, s].                                  *)

NoMembers == << >>

JNull == [t |-> "null", s |-> "", f |-> NoMembers]

JNum(x) == [t |-> "num", s |-> x, f |-> NoMembers]

JStr(x) == [t |-> "str", s |-> x, f |-> NoMembers]

JObj(members) == [t |-> "obj", s |-> "", f |-> members]

Tok(k, s) == [k |-> k, s |-> s]

Punct(k) == <<Tok(k, "")>>

WS == <<Tok("ws", "")>>

\* member names in the order stringify emits them
MemberOrder == <<"name", "email", "newProp">>

MembersOf(v) == SelectSeq(MemberOrder, LAMBDA n : n \in DOMAIN v.f)

\* JSON.stringify(data) when pretty = FALSE, JSON.stringify(data, null, 2)
\* when pretty = TRUE (white space after '{', ':' and ',' and before '}')
RECURSIVE Stringify(_, _)
RECURSIVE StringifyMembers(_, _, _)
StringifyMembers(v, names, pretty) ==
  IF names = << >> THEN << >>
  ELSE LET sp == IF pretty THEN WS ELSE << >>
           n == Head(names)
       IN sp \o <<Tok("str", n)>> \o Punct(":") \o sp \o Stringify(v.f[n], pretty)
          \o (IF Len(names) > 1 THEN Punct(",") ELSE sp)
          \o StringifyMembers(v, Tail(names), pretty)

Stringify(v, pretty) ==
  IF v.t = "obj"
    THEN Punct("{") \o StringifyMembers(v, MembersOf(v), pretty) \o Punct("}")
  ELSE <<Tok(v.t, v.s)>>

RECURSIVE SkipWS(_, _)
SkipWS(toks, i) ==
  IF i <= Len(toks) /\ toks[i].k = "ws" THEN SkipWS(toks, i + 1) ELSE i

ParseFail == [ok |-> FALSE, v |-> JNull, i |-> 0]

\* the spread the wrong way round: { ...p, ...e }
OverrideReversed(e, p) ==
  [n \in DOMAIN e \cup DOMAIN p |-> IF n \in DOMAIN e THEN e[n] ELSE p[n]]

\* { ...e, ...p }
Override(e, p) ==
  [n \in DOMAIN e \cup DOMAIN p |-> IF n \in DOMAIN p THEN p[n] ELSE e[n]]

\* the recursive-descent parser of JSON.parse: a value starting at token i
RECURSIVE ParseValue(_, _)
RECURSIVE ParseMember(_, _, _)
ParseMember(toks, i0, acc) ==
  LET i == SkipWS(toks, i0)
  IN IF i > Len(toks) \/ toks[i].k # "str" THEN ParseFail
     ELSE LET c == SkipWS(toks, i + 1)
          IN IF c > Len(toks) \/ toks[c].k # ":" THEN ParseFail
             ELSE LET val == ParseValue(toks, c + 1)
                  IN IF ~val.ok THEN ParseFail
                     ELSE LET j == SkipWS(toks, val.i)
                              acc2 == Override(acc, [n \in {toks[i].s} |-> val.v])
                          IN IF j > Len(toks) THEN ParseFail
                             ELSE IF toks[j].k = ","
                               THEN ParseMember(toks, j + 1, acc2)
                             ELSE IF toks[j].k = "}"
                               THEN [ok |-> TRUE, v |-> JObj(acc2), i |-> j + 1]
                             ELSE ParseFail

ParseValue(toks, i0) ==
  LET i == SkipWS(toks, i0)
  IN IF i > Len(toks) THEN ParseFail
     ELSE IF toks[i].k \in {"str", "num", "null"}
       THEN [ok |-> TRUE, v |-> [t |-> toks[i].k, s |-> toks[i].s, f |-> NoMembers],
             i |-> i + 1]
     ELSE IF toks[i].k = "{"
       THEN LET j == SkipWS(toks, i + 1)
            IN IF j <= Len(toks) /\ toks[j].k = "}"
                 THEN [ok |-> TRUE, v |-> JObj(NoMembers), i |-> j + 1]
               ELSE ParseMember(toks, i + 1, NoMembers)
     ELSE ParseFail

\* JSON.parse(text): one value, then nothing but white space
JsonParse(toks) ==
  LET r == ParseValue(toks, 1)
  IN IF r.ok /\ SkipWS(toks, r.i) = Len(toks) + 1 THEN r ELSE ParseFail

\* { ...v }: the own enumerable members of an object, none for null or a number
Spread(v) == IF v.t = "obj" THEN v.f ELSE NoMembers

-----------------------------------------------------------------------------
(* The S3 bucket: a function from object keys to bodies, and the SDK calls *)
(* the store issues.  fault is "none" or the code of the error the call    *)
(* fails with (AccessDenied, a network error, ...).                        *)

\* characters in byte order, the order S3 lists keys in
ByteOrder == <<".", "/", "1", "_", "a", "b", "j", "n", "o", "s", "u", "x">>

Rank(c) == CHOOSE i \in 1..Len(ByteOrder) : ByteOrder[i] = c

RECURSIVE KeyLess(_, _)
KeyLess(a, b) ==
  IF b = << >> THEN FALSE
  ELSE IF a = << >> THEN TRUE
  ELSE IF a[1] = b[1] THEN KeyLess(Tail(a), Tail(b))
  ELSE Rank(a[1]) < Rank(b[1])

RECURSIVE Sorted(_)
Sorted(keys) ==
  IF keys = {} THEN << >>
  ELSE LET m == CHOOSE k \in keys : \A o \in keys \ {k} : KeyLess(k, o)
       IN <<m>> \o Sorted(keys \ {m})

Stored(b, key) == key \in DOMAIN b

WithObject(b, key, body) ==
  [k \in DOMAIN b \cup {key} |-> IF k = key THEN body ELSE b[k]]

WithoutObject(b, key) == [k \in DOMAIN b \ {key} |-> b[k]]

\* one logged SDK call: its name, the key it addressed and how it ended
Sdk(api, key, err) == [api |-> api, key |-> key, err |-> err]

S3Upload(b, key, body, fault) ==
  IF fault # "none" THEN [b |-> b, err |-> fault]
  ELSE [b |-> WithObject(b, key, body), err |-> ""]

S3GetObject(b, key, fault) ==
  IF fault # "none" THEN [err |-> fault, Body |-> << >>]
  ELSE IF ~Stored(b, key) THEN [err |-> "NoSuchKey", Body |-> << >>]
  ELSE [err |-> "", Body |-> b[key]]

\* deleting an absent key is a success
S3DeleteObject(b, key, fault) ==
  IF fault # "none" THEN [b |-> b, err |-> fault]
  ELSE [b |-> WithoutObject(b, key), err |-> ""]

S3HeadObject(b, key, fault) ==
  IF fault # "none" THEN [err |-> fault]
  ELSE IF ~Stored(b, key) THEN [err |-> "NotFound"]
  ELSE [err |-> ""]

S3CopyObject(b, source, key, fault) ==
  IF fault # "none" THEN [b |-> b, err |-> fault]
  ELSE IF ~Stored(b, source) THEN [b |-> b, err |-> "NoSuchKey"]
  ELSE [b |-> WithObject(b, key, b[source]), err |-> ""]

\* keys per page of listObjects (1000 on S3)
PageSize == 1

\* listObjects: the keys that start with Prefix (a plain string prefix) and sort
\* after Marker, in byte order, at most PageSize of them
S3ListObjects(b, Prefix, Marker, fault) ==
  IF fault # "none" THEN [err |-> fault, Contents |-> << >>, IsTruncated |-> FALSE]
  ELSE LET all == Sorted({k \in DOMAIN b : StartsWith(k, Prefix) /\ KeyLess(Marker, k)})
       IN [err |-> "",
           Contents |-> SubSeq(all, 1, IF Len(all) < PageSize THEN Len(all) ELSE PageSize),
           IsTruncated |-> Len(all) > PageSize]

-----------------------------------------------------------------------------
(* The methods of S3DB.  Each takes the bucket b and returns the bucket    *)
(* after it, what the caller gets (out) and the SDK calls issued (log).    *)

Returned(kind, val) == [status |-> "ok", err |-> "", kind |-> kind, val |-> val]

Threw(err) == [status |-> "threw", err |-> err, kind |-> "void", val |-> JNull]

Void == Returned("void", JNull)

\* JavaScript null
Null == Returned("null", JNull)

putBlob(b, prefix, key, data, fault) ==
  LET s3Key == joinPath(prefix, key)
      r == S3Upload(b, s3Key, data, fault)
  IN [b |-> r.b,
      out |-> IF r.err = "" THEN Void ELSE Threw(r.err),
      log |-> <<Sdk("upload", s3Key, r.err)>>]

\* a put that leaves the key as the caller gave it
putVerbatim(b, prefix, key, data, formatForReadability, fault) ==
  putBlob(b, prefix, key, Stringify(data, formatForReadability), fault)

put(b, prefix, key, data, formatForReadability, fault) ==
  putBlob(b, prefix, ensureJsonExtension(key), Stringify(data, formatForReadability), fault)

\* a getBlob that answers null for every absent object, asked to or not
getBlobAlwaysNull(b, prefix, key, returnNullIfNotFound, fault) ==
  LET s3Key == joinPath(prefix, key)
      r == S3GetObject(b, s3Key, fault)
  IN [b |-> b,
      out |-> IF r.err = "" THEN Returned("body", r.Body)
              ELSE IF r.err = "NoSuchKey" THEN Null
              ELSE Threw(r.err),
      log |-> <<Sdk("getObject", s3Key, r.err)>>]

\* a getBlob that addresses its key as a document key
getBlobAsDocument(b, prefix, key, returnNullIfNotFound, fault) ==
  LET s3Key == joinPath(prefix, ensureJsonExtension(key))
      r == S3GetObject(b, s3Key, fault)
  IN [b |-> b,
      out |-> IF r.err = "" THEN Returned("body", r.Body)
              ELSE IF r.err = "NoSuchKey" /\ returnNullIfNotFound THEN Null
              ELSE Threw(r.err),
      log |-> <<Sdk("getObject", s3Key, r.err)>>]

getBlob(b, prefix, key, returnNullIfNotFound, fault) ==
  LET s3Key == joinPath(prefix, key)
      r == S3GetObject(b, s3Key, fault)
  IN [b |-> b,
      out |-> IF r.err = "" THEN Returned("body", r.Body)
              ELSE IF r.err = "NoSuchKey" /\ returnNullIfNotFound THEN Null
              ELSE Threw(r.err),
      log |-> <<Sdk("getObject", s3Key, r.err)>>]

\* a get that answers null for a body that does not parse, when asked to
\* return null
getParseLenient(b, prefix, key, returnNullIfNotFound, fault) ==
  LET body == getBlob(b, prefix, ensureJsonExtension(key), returnNullIfNotFound, fault)
  IN IF body.out.status = "threw" \/ body.out.kind = "null" THEN body
     ELSE LET parsed == JsonParse(body.out.val)
          IN [body EXCEPT !.out = IF parsed.ok THEN Returned("value", parsed.v)
                                  ELSE IF returnNullIfNotFound THEN Null
                                  ELSE Threw("ParseError")]

get(b, prefix, key, returnNullIfNotFound, fault) ==
  LET body == getBlob(b, prefix, ensureJsonExtension(key), returnNullIfNotFound, fault)
  IN IF body.out.status = "threw" \/ body.out.kind = "null" THEN body
     ELSE LET parsed == JsonParse(body.out.val)
          IN [body EXCEPT !.out = IF parsed.ok THEN Returned("value", parsed.v)
                                  ELSE Threw("ParseError")]

\* a getString that leaves an empty object behind where it found none
getStringCreating(b, prefix, key, returnNullIfNotFound, fault) ==
  LET e == getBlob(b, prefix, key, returnNullIfNotFound, fault)
  IN IF e.out.kind = "null" THEN [e EXCEPT !.b = WithObject(b, joinPath(prefix, key), << >>)]
     ELSE e

getString(b, prefix, key, returnNullIfNotFound, fault) ==
  getBlob(b, prefix, key, returnNullIfNotFound, fault)

\* a deleteBlob that refuses an absent key
deleteBlobStrict(b, prefix, key, fault) ==
  LET s3Key == joinPath(prefix, key)
      r == S3DeleteObject(b, s3Key, fault)
  IN IF fault = "none" /\ ~Stored(b, s3Key)
       THEN [b |-> b, out |-> Threw("NoSuchKey"), log |-> << >>]
     ELSE [b |-> r.b,
           out |-> IF r.err = "" THEN Void ELSE Threw(r.err),
           log |-> <<Sdk("deleteObject", s3Key, r.err)>>]

deleteBlob(b, prefix, key, fault) ==
  LET s3Key == joinPath(prefix, key)
      r == S3DeleteObject(b, s3Key, fault)
  IN [b |-> r.b,
      out |-> IF r.err = "" THEN Void ELSE Threw(r.err),
      log |-> <<Sdk("deleteObject", s3Key, r.err)>>]

delete(b, prefix, key, fault) == deleteBlob(b, prefix, ensureJsonExtension(key), fault)

\* an existence probe that answers false for every failure of headObject
existsFullyQualifiedLenient(b, key, fault) ==
  LET r == S3HeadObject(b, key, fault)
  IN [b |-> b,
      out |-> IF r.err = "" THEN Returned("bool", TRUE) ELSE Returned("bool", FALSE),
      log |-> <<Sdk("headObject", key, r.err)>>]

existsFullyQualified(b, key, fault) ==
  LET r == S3HeadObject(b, key, fault)
  IN [b |-> b,
      out |-> IF r.err = "" THEN Returned("bool", TRUE)
              ELSE IF r.err = "NotFound" THEN Returned("bool", FALSE)
              ELSE Threw(r.err),
      log |-> <<Sdk("headObject", key, r.err)>>]

existsBlob(b, prefix, key, fault) == existsFullyQualified(b, joinPath(prefix, key), fault)

exists(b, prefix, key, fault) ==
  existsFullyQualified(b, joinPath(prefix, ensureJsonExtension(key)), fault)

\* list, up to its first await: the prefix the listing is made under
listPrefix(prefix, subPath) ==
  LET fullPrefix == IF subPath # << >> THEN joinPath(prefix, subPath) ELSE prefix
  IN IF EndsWith(fullPrefix, Slash) THEN DropLast(fullPrefix) ELSE fullPrefix

\* obj.Key.replace(fullPrefix + '/', '').replace('.json', '')
listEntry(fullPrefix, Key) ==
  Replace(Replace(Key, fullPrefix \o Slash, << >>), DotJson, << >>)

RECURSIVE MapEntries(_, _)
MapEntries(fullPrefix, Contents) ==
  IF Contents = << >> THEN << >>
  ELSE <<listEntry(fullPrefix, Head(Contents))>> \o MapEntries(fullPrefix, Tail(Contents))

\* a loop body that takes every page for the last one
listPageOnce(b, st, fault) ==
  LET data == S3ListObjects(b, st.fullPrefix, st.Marker, fault)
  IN [st |-> IF data.err # "" THEN st
             ELSE [fullPrefix |-> st.fullPrefix,
                   allKeys |-> st.allKeys \o MapEntries(st.fullPrefix, data.Contents),
                   isTruncated |-> FALSE,
                   Marker |-> st.Marker],
      err |-> IF data.err # "" THEN "Error" ELSE "",
      log |-> <<Sdk("listObjects", st.Marker, data.err)>>]

\* one turn of list's while loop: a page is fetched and its entries pushed; a
\* failure of the page is rethrown as a new Error
listPage(b, st, fault) ==
  LET data == S3ListObjects(b, st.fullPrefix, st.Marker, fault)
  IN [st |-> IF data.err # "" THEN st
             ELSE [fullPrefix |-> st.fullPrefix,
                   allKeys |-> st.allKeys \o MapEntries(st.fullPrefix, data.Contents),
                   isTruncated |-> data.IsTruncated,
                   Marker |-> IF data.IsTruncated
                                THEN data.Contents[Len(data.Contents)]
                              ELSE st.Marker],
      err |-> IF data.err # "" THEN "Error" ELSE "",
      log |-> <<Sdk("listObjects", st.Marker, data.err)>>]

-----------------------------------------------------------------------------
(* The caller: one call at a time, advanced one SDK round trip per step.   *)
(* peer is the call of a second caller of the same store, idle unless a    *)
(* specification lets it act.                                              *)
(* A call that is done holds its arguments, its result, the SDK calls it   *)
(* issued and the bucket it started from (pre), until the caller takes the *)
(* result and is free to make its next call.                               *)
(* moments is history: the bucket as it was when each SDK call of the call *)
(* in progress (or just finished) was made, in order.                      *)

\* objects the bucket may hold
MaxObjects == 2

Idle ==
  [op |-> "none", pc |-> "idle", prefix |-> << >>, key |-> << >>, key2 |-> << >>,
   data |-> JNull, flag |-> FALSE, local |-> << >>, out |-> Void, log |-> << >>,
   pre |-> << >>]

Ready == call.pc = "idle"

\* the object a document key addresses
docPath(prefix, key) == joinPath(prefix, ensureJsonExtension(key))

\* History: written[p] is the document the last successful put() stored at
\* object p, for the objects nothing has changed since; over tells whether that
\* put replaced other content.  b and c are the bucket and the call after the step.
Tracked(b, c) ==
  LET same(p) == IF Stored(b, p) THEN Stored(bucket, p) /\ b[p] = bucket[p]
                 ELSE ~Stored(bucket, p)
      kept == {p \in DOMAIN written : same(p)}
      putNow == call.pc = "idle" /\ c.op = "put" /\ c.out.status = "ok"
      path == docPath(c.prefix, c.key)
  IN [p \in kept \cup (IF putNow THEN {path} ELSE {}) |->
        IF putNow /\ p = path
          THEN [doc |-> c.data, over |-> Stored(bucket, p) /\ bucket[p] # b[p]]
        ELSE written[p]]

Fits(b) == Cardinality(DOMAIN b) <= MaxObjects

\* a call made of a single SDK round trip: e is what the method did
Whole(op, prefix, key, data, flag, e) ==
  /\ Ready
  /\ Fits(e.b)
  /\ bucket' = e.b
  /\ call' = [op |-> op, pc |-> "done", prefix |-> prefix, key |-> key, key2 |-> << >>,
              data |-> data, flag |-> flag, local |-> << >>, out |-> e.out,
              log |-> e.log, pre |-> bucket]
  /\ written' = Tracked(bucket', call')
  /\ moments' = <<bucket>>
  /\ UNCHANGED peer

\* the promise of a finished call settles
Return ==
  /\ call.pc = "done"
  /\ call' = Idle
  /\ moments' = << >>
  /\ UNCHANGED <<bucket, written, peer>>

Put(prefix, key, data, formatForReadability, fault) ==
  Whole("put", prefix, key, data, formatForReadability,
        put(bucket, prefix, key, data, formatForReadability, fault))

PutBlob(prefix, key, data, fault) ==
  Whole("putBlob", prefix, key, data, FALSE, putBlob(bucket, prefix, key, data, fault))

Get(prefix, key, returnNullIfNotFound, fault) ==
  Whole("get", prefix, key, JNull, returnNullIfNotFound,
        get(bucket, prefix, key, returnNullIfNotFound, fault))

GetBlob(prefix, key, returnNullIfNotFound, fault) ==
  Whole("getBlob", prefix, key, JNull, returnNullIfNotFound,
        getBlob(bucket, prefix, key, returnNullIfNotFound, fault))

GetString(prefix, key, returnNullIfNotFound, fault) ==
  Whole("getString", prefix, key, JNull, returnNullIfNotFound,
        getString(bucket, prefix, key, returnNullIfNotFound, fault))

Delete(prefix, key, fault) ==
  Whole("delete", prefix, key, JNull, FALSE, delete(bucket, prefix, key, fault))

DeleteBlob(prefix, key, fault) ==
  Whole("deleteBlob", prefix, key, JNull, FALSE, deleteBlob(bucket, prefix, key, fault))

Exists(prefix, key, fault) ==
  Whole("exists", prefix, key, JNull, FALSE, exists(bucket, prefix, key, fault))

ExistsBlob(prefix, key, fault) ==
  Whole("existsBlob", prefix, key, JNull, FALSE, existsBlob(bucket, prefix, key, fault))

\* the call record of an update once this.get(key) has returned e
UpdateRead(prefix, key, newData, e) ==
  [op |-> "update", prefix |-> prefix, key |-> key, key2 |-> << >>,
   data |-> newData, flag |-> FALSE, log |-> e.log, pre |-> bucket,
   pc |-> IF e.out.status = "threw" THEN "done" ELSE "update_put",
   local |-> IF e.out.status = "threw" THEN << >> ELSE e.out.val,
   out |-> IF e.out.status = "threw" THEN e.out ELSE Void]

\* { ...existingData, ...newData }
Merged(existingData, newData) == JObj(Override(Spread(existingData), Spread(newData)))

\* the call record of an update once this.put(key, updatedData) has returned e
UpdateWritten(c, e, local) ==
  [c EXCEPT !.pc = "done", !.out = e.out, !.log = c.log \o e.log, !.local = local]

\* an update that reads with returnNullIfNotFound, and so goes on to put the
\* patch alone where nothing is stored
UpdateGetOrNull(prefix, key, newData, fault) ==
  /\ Ready
  /\ Fits(WithObject(bucket, joinPath(prefix, ensureJsonExtension(key)), << >>))
  /\ call' = UpdateRead(prefix, key, newData, get(bucket, prefix, key, TRUE, fault))
  /\ moments' = <<bucket>>
  /\ UNCHANGED <<bucket, written, peer>>

\* update, up to the return of this.get(key)
UpdateGet(prefix, key, newData, fault) ==
  /\ Ready
  /\ Fits(WithObject(bucket, joinPath(prefix, ensureJsonExtension(key)), << >>))
  /\ call' = UpdateRead(prefix, key, newData, get(bucket, prefix, key, FALSE, fault))
  /\ moments' = <<bucket>>
  /\ UNCHANGED <<bucket, written, peer>>

\* the first caller's update ends with the put that did e
UpdateStored(e) ==
  /\ bucket' = e.b
  /\ call' = UpdateWritten(call, e, << >>)
  /\ written' = Tracked(bucket', call')
  /\ moments' = Append(moments, bucket)
  /\ UNCHANGED peer

\* an update that merges into the document stored when it writes, not into the
\* one it read
UpdatePutFresh(fault) ==
  /\ call.pc = "update_put"
  /\ LET now == get(bucket, call.prefix, call.key, FALSE, "none").out
     IN UpdateStored(put(bucket, call.prefix, call.key,
                         Merged(IF now.status = "ok" THEN now.val ELSE call.local,
                                call.data),
                         FALSE, fault))

\* update, from the merge to the return of this.put(key, updatedData)
UpdatePut(fault) ==
  /\ call.pc = "update_put"
  /\ UpdateStored(put(bucket, call.prefix, call.key, Merged(call.local, call.data),
                      FALSE, fault))

\* History of the second caller: what the first caller's call was (its
\* position, the bucket it started from, its key and data) when the second
\* caller's write reached the bucket
Seen(main) == [pc |-> main.pc, pre |-> main.pre, key |-> main.key, data |-> main.data]

PeerDone(op, prefix, key, data, e, main) ==
  [op |-> op, pc |-> "done", prefix |-> prefix, key |-> key, key2 |-> << >>,
   data |-> data, flag |-> FALSE, local |-> main, out |-> e.out, log |-> e.log,
   pre |-> bucket]

\* the second caller's write e reaches the bucket and leaves its call as c
PeerStored(e, c) ==
  /\ Fits(e.b)
  /\ bucket' = e.b
  /\ peer' = c
  /\ written' = Tracked(bucket', call)
  /\ UNCHANGED <<call, moments>>

\* the second caller's put has returned e
PeerPutDone(prefix, key, data, e) ==
  PeerStored(e, PeerDone("put", prefix, key, data, e, Seen(call)))

\* put, by the second caller
PeerPut(prefix, key, data, fault) ==
  /\ peer.pc = "idle"
  /\ PeerPutDone(prefix, key, data, put(bucket, prefix, key, data, FALSE, fault))

\* update by the second caller, up to the return of this.get(key)
PeerUpdateGet(prefix, key, newData, fault) ==
  /\ peer.pc = "idle"
  /\ peer' = UpdateRead(prefix, key, newData, get(bucket, prefix, key, FALSE, fault))
  /\ UNCHANGED <<bucket, written, call, moments>>

\* the second caller's update ends with the put that did e
PeerUpdateStored(e) == PeerStored(e, UpdateWritten(peer, e, Seen(call)))

\* update by the second caller, from the merge to the return of this.put
PeerUpdatePut(fault) ==
  /\ peer.pc = "update_put"
  /\ PeerUpdateStored(put(bucket, peer.prefix, peer.key, Merged(peer.local, peer.data),
                          FALSE, fault))

\* the second caller's delete has returned e
PeerDeleteDone(prefix, key, e) ==
  PeerStored(e, PeerDone("delete", prefix, key, JNull, e, Seen(call)))

\* delete, by the second caller
PeerDelete(prefix, key, fault) ==
  /\ peer.pc = "idle"
  /\ PeerDeleteDone(prefix, key, delete(bucket, prefix, key, fault))

\* the promise of the second caller's finished call settles
PeerReturn ==
  /\ peer.pc = "done"
  /\ peer' = Idle
  /\ UNCHANGED <<bucket, written, call, moments>>

\* list, up to the return of the first listObjects
List(prefix, subPath, fault) ==
  /\ Ready
  /\ LET st0 == [fullPrefix |-> listPrefix(prefix, subPath), allKeys |-> << >>,
                 isTruncated |-> TRUE, Marker |-> << >>]
         r == listPage(bucket, st0, fault)
         more == r.err = "" /\ r.st.isTruncated
     IN call' = [op |-> "list", prefix |-> prefix, key |-> subPath, key2 |-> << >>,
                 data |-> JNull, flag |-> FALSE, log |-> r.log, pre |-> bucket,
                 pc |-> IF more THEN "list_page" ELSE "done",
                 local |-> IF more THEN r.st ELSE << >>,
                 out |-> IF r.err # "" THEN Threw(r.err)
                         ELSE IF more THEN Void
                         ELSE Returned("keys", r.st.allKeys)]
  /\ moments' = <<bucket>>
  /\ UNCHANGED <<bucket, written, peer>>

\* list, one more page
ListPage(fault) ==
  /\ call.pc = "list_page"
  /\ LET r == listPage(bucket, call.local, fault)
         more == r.err = "" /\ r.st.isTruncated
     IN call' = [call EXCEPT !.log = call.log \o r.log,
                             !.pc = IF more THEN "list_page" ELSE "done",
                             !.local = IF more THEN r.st ELSE << >>,
                             !.out = IF r.err # "" THEN Threw(r.err)
                                     ELSE IF more THEN Void
                                     ELSE Returned("keys", r.st.allKeys)]
  /\ moments' = Append(moments, bucket)
  /\ UNCHANGED <<bucket, written, peer>>

\* a copyFullyQualified that goes on to copyObject whatever the probe answered
ProbeSourceIgnored(op, prefix, key, key2, sourcePath, destinationPath, fault) ==
  /\ Ready
  /\ Fits(WithObject(bucket, destinationPath, << >>))
  /\ LET e == existsFullyQualified(bucket, sourcePath, fault)
     IN call' = [op |-> op, prefix |-> prefix, key |-> key, key2 |-> key2,
                 data |-> JNull, flag |-> FALSE, log |-> e.log, pre |-> bucket,
                 pc |-> IF e.out.status = "threw" THEN "done" ELSE "copy_object",
                 local |-> IF e.out.status = "threw" THEN << >>
                           ELSE [sourcePath |-> sourcePath,
                                 destinationPath |-> destinationPath],
                 out |-> IF e.out.status = "threw" THEN e.out ELSE Void]
  /\ moments' = <<bucket>>
  /\ UNCHANGED <<bucket, written, peer>>

\* copyFullyQualified, up to the return of existsFullyQualified(sourcePath)
ProbeSource(op, prefix, key, key2, sourcePath, destinationPath, fault) ==
  /\ Ready
  /\ Fits(WithObject(bucket, destinationPath, << >>))
  /\ LET e == existsFullyQualified(bucket, sourcePath, fault)
         stop == e.out.status = "threw" \/ ~e.out.val
     IN call' = [op |-> op, prefix |-> prefix, key |-> key, key2 |-> key2,
                 data |-> JNull, flag |-> FALSE, log |-> e.log, pre |-> bucket,
                 pc |-> IF stop THEN "done" ELSE "copy_object",
                 local |-> IF stop THEN << >>
                           ELSE [sourcePath |-> sourcePath,
                                 destinationPath |-> destinationPath],
                 out |-> IF e.out.status = "threw" THEN e.out
                         ELSE IF ~e.out.val THEN Threw("SourceNotFound")
                         ELSE Void]
  /\ moments' = <<bucket>>
  /\ UNCHANGED <<bucket, written, peer>>

CopyFullyQualified(prefix, sourcePath, destinationPath, fault) ==
  ProbeSource("copyFullyQualified", prefix, sourcePath, destinationPath,
              sourcePath, destinationPath, fault)

\* a copy that leaves the new key as the caller gave it
CopyVerbatimTarget(prefix, relativeKey, newRelativeKey, fault) ==
  ProbeSource("copy", prefix, relativeKey, newRelativeKey,
              PathJoin(prefix, ensureJsonExtension(relativeKey)),
              PathJoin(prefix, newRelativeKey), fault)

Copy(prefix, relativeKey, newRelativeKey, fault) ==
  ProbeSource("copy", prefix, relativeKey, newRelativeKey,
              PathJoin(prefix, ensureJsonExtension(relativeKey)),
              PathJoin(prefix, ensureJsonExtension(newRelativeKey)), fault)

MoveFullyQualified(prefix, sourcePath, destinationPath, fault) ==
  ProbeSource("moveFullyQualified", prefix, sourcePath, destinationPath,
              sourcePath, destinationPath, fault)

Move(prefix, relativeKey, newRelativeKey, fault) ==
  ProbeSource("move", prefix, relativeKey, newRelativeKey,
              PathJoin(prefix, ensureJsonExtension(relativeKey)),
              PathJoin(prefix, ensureJsonExtension(newRelativeKey)), fault)

\* a move that goes on to delete its source whatever copyObject answered
CopyObjectThenDelete(fault) ==
  /\ call.pc = "copy_object"
  /\ LET r == S3CopyObject(bucket, call.local.sourcePath, call.local.destinationPath, fault)
         isMove == call.op \in {"move", "moveFullyQualified"}
     IN /\ bucket' = r.b
        /\ call' = [call EXCEPT
                      !.log = call.log \o <<Sdk("copyObject", call.local.destinationPath, r.err)>>,
                      !.pc = IF isMove THEN "delete_source" ELSE "done",
                      !.local = IF isMove THEN call.local ELSE << >>,
                      !.out = IF r.err # "" THEN Threw(r.err) ELSE Void]
        /\ written' = Tracked(bucket', call')
        /\ moments' = Append(moments, bucket)
        /\ UNCHANGED peer

\* copyFullyQualified, the copyObject round trip; a move goes on to its delete
CopyObject(fault) ==
  /\ call.pc = "copy_object"
  /\ LET r == S3CopyObject(bucket, call.local.sourcePath, call.local.destinationPath, fault)
         isMove == call.op \in {"move", "moveFullyQualified"}
     IN /\ bucket' = r.b
        /\ call' = [call EXCEPT
                      !.log = call.log \o <<Sdk("copyObject", call.local.destinationPath, r.err)>>,
                      !.pc = IF r.err = "" /\ isMove THEN "delete_source" ELSE "done",
                      !.local = IF r.err = "" /\ isMove THEN call.local ELSE << >>,
                      !.out = IF r.err # "" THEN Threw(r.err) ELSE Void]
        /\ written' = Tracked(bucket', call')
        /\ moments' = Append(moments, bucket)
        /\ UNCHANGED peer

\* a move that returns without deleting its source
DeleteSourceSkipped(fault) ==
  /\ call.pc = "delete_source"
  /\ call' = [call EXCEPT !.pc = "done", !.local = << >>, !.out = Void]
  /\ moments' = Append(moments, bucket)
  /\ UNCHANGED <<bucket, written, peer>>

\* a move that takes the copy back when the delete of the source fails
DeleteSourceRollback(fault) ==
  /\ call.pc = "delete_source"
  /\ LET r == S3DeleteObject(bucket, call.local.sourcePath, fault)
         undo == S3DeleteObject(r.b, call.local.destinationPath, "none")
     IN /\ bucket' = IF r.err # "" THEN undo.b ELSE r.b
        /\ call' = [call EXCEPT
                      !.log = call.log \o <<Sdk("deleteObject", call.local.sourcePath, r.err)>>
                              \o (IF r.err # ""
                                    THEN <<Sdk("deleteObject", call.local.destinationPath, "")>>
                                  ELSE << >>),
                      !.pc = "done",
                      !.local = << >>,
                      !.out = IF r.err # "" THEN Threw(r.err) ELSE Void]
        /\ written' = Tracked(bucket', call')
        /\ moments' = Append(moments, bucket)
        /\ UNCHANGED peer

\* a move that copies its source once more when it comes to delete it
DeleteSourceRecopied(fault) ==
  /\ call.pc = "delete_source"
  /\ LET again == S3CopyObject(bucket, call.local.sourcePath, call.local.destinationPath,
                               "none")
         r == S3DeleteObject(again.b, call.local.sourcePath, fault)
     IN /\ bucket' = r.b
        /\ call' = [call EXCEPT
                      !.log = call.log \o <<Sdk("deleteObject", call.local.sourcePath, r.err)>>,
                      !.pc = "done",
                      !.local = << >>,
                      !.out = IF r.err # "" THEN Threw(r.err) ELSE Void]
        /\ written' = Tracked(bucket', call')
        /\ moments' = Append(moments, bucket)
        /\ UNCHANGED peer

\* moveFullyQualified, the deleteObject of the source
DeleteSource(fault) ==
  /\ call.pc = "delete_source"
  /\ LET r == S3DeleteObject(bucket, call.local.sourcePath, fault)
     IN /\ bucket' = r.b
        /\ call' = [call EXCEPT
                      !.log = call.log \o <<Sdk("deleteObject", call.local.sourcePath, r.err)>>,
                      !.pc = "done",
                      !.local = << >>,
                      !.out = IF r.err # "" THEN Threw(r.err) ELSE Void]
        /\ written' = Tracked(bucket', call')
        /\ moments' = Append(moments, bucket)
        /\ UNCHANGED peer

-----------------------------------------------------------------------------
(* Inputs                                                                  *)

Faults == {"none", "AccessDenied"}

U == <<"u">>

A == <<"a">>

B == <<"b">>

John == JObj([name |-> JStr("John"), email |-> JStr("j@x.com")])

Jane == JObj([name |-> JObj([email |-> JStr("j@x.com"), newProp |-> JNum("1")])])

NewProp == JObj([newProp |-> JStr("v")])

Rename == JObj([name |-> JObj([newProp |-> JNum("2")])])

\* bytes that are no JSON text
Hello == <<Tok("junk", "Hello, world!")>>

Init ==
  bucket = << >> /\ call = Idle /\ written = << >> /\ peer = Idle /\ moments = << >>

-----------------------------------------------------------------------------
(* A caller working on the documents and raw objects of one store          *)

DocStores == {U}

DocKeys == {A, A \o DotJson, B}

Docs == {John, Jane, JNull}

Patches == {NewProp, Rename}

Blobs == {Hello, Stringify(John, FALSE)}

NextDoc ==
  \/ \E p \in DocStores, k \in DocKeys, d \in Docs, o \in BOOLEAN, f \in Faults :
       Put(p, k, d, o, f)
  \/ \E p \in DocStores, k \in DocKeys, o \in BOOLEAN, f \in Faults : Get(p, k, o, f)
  \/ \E p \in DocStores, k \in DocKeys, f \in Faults : Delete(p, k, f)
  \/ \E p \in DocStores, k \in DocKeys, d \in Patches, f \in Faults : UpdateGet(p, k, d, f)
  \/ \E f \in Faults : UpdatePut(f)
  \/ \E p \in DocStores, k \in DocKeys, d \in Blobs, f \in Faults : PutBlob(p, k, d, f)
  \/ \E p \in DocStores, k \in DocKeys, o \in BOOLEAN, f \in Faults : GetBlob(p, k, o, f)
  \/ \E p \in DocStores, k \in DocKeys, f \in Faults : DeleteBlob(p, k, f)
  \/ \E p \in DocStores, k \in DocKeys, o \in BOOLEAN, f \in Faults : GetString(p, k, o, f)
  \/ \E p \in DocStores, k \in DocKeys, f \in Faults : Exists(p, k, f)
  \/ \E p \in DocStores, k \in DocKeys, f \in Faults : ExistsBlob(p, k, f)
  \/ Return

SpecDoc == Init /\ [][NextDoc]_vars

-----------------------------------------------------------------------------
(* Properties of the document operations                                   *)

Done(ops) == call.pc = "done" /\ call.op \in ops

\* some SDK call of the finished call failed in the backend
BackendFailed == \E i \in 1..Len(call.log) : call.log[i].err \in Faults

\* C1: a get of a document key whose object was last written by put(k, d), with
\* nothing changing the object since, returns exactly d: the document of the
\* last put alone, whatever was stored there before it.
C1_RoundTrip ==
  (Done({"get"}) /\ ~BackendFailed /\ docPath(call.prefix, call.key) \in DOMAIN written)
    => call.out = Returned("value", written[docPath(call.prefix, call.key)].doc)

\* a get that reads back the second of two puts of different documents
C1_Witness ==
  /\ Done({"get"})
  /\ docPath(call.prefix, call.key) \in DOMAIN written
  /\ written[docPath(call.prefix, call.key)].over
  /\ call.out = Returned("value", Jane)

\* C5: with no object at the key's path, get returns null when
\* returnNullIfNotFound is set and throws the backend's NoSuchKey error when it
\* is not; with an object there, it does neither.
C5_NotFoundPolicy ==
  (Done({"get"}) /\ ~BackendFailed) =>
    IF ~Stored(call.pre, docPath(call.prefix, call.key))
      THEN call.out = (IF call.flag THEN Null ELSE Threw("NoSuchKey"))
    ELSE call.out # Null /\ call.out.err # "NoSuchKey"

\* a get of an absent document without the option, which threw
C5_Witness ==
  /\ Done({"get"})
  /\ ~call.flag
  /\ ~Stored(call.pre, docPath(call.prefix, call.key))
  /\ call.out.status = "threw"

\* C6: after a successful update(k, p) of a stored mapping e, get(k) returns a
\* mapping with the members of e and of p and no others, each member of p with
\* p's value and every other member with e's value.
C6_UpdateMerge ==
  (Done({"update"}) /\ call.out.status = "ok") =>
    LET e == JsonParse(call.pre[docPath(call.prefix, call.key)]).v
        p == call.data
        r == get(bucket, call.prefix, call.key, FALSE, "none").out
    IN e.t = "obj" =>
         /\ r.status = "ok" /\ r.kind = "value" /\ r.val.t = "obj"
         /\ DOMAIN r.val.f = DOMAIN e.f \cup DOMAIN p.f
         /\ \A n \in DOMAIN p.f : r.val.f[n] = p.f[n]
         /\ \A n \in DOMAIN e.f \ DOMAIN p.f : r.val.f[n] = e.f[n]

\* an update that replaced a nested member wholesale and kept another member
C6_Witness ==
  /\ Done({"update"})
  /\ call.out.status = "ok"
  /\ call.data = Rename
  /\ JsonParse(call.pre[docPath(call.prefix, call.key)]).v = John
  /\ get(bucket, call.prefix, call.key, FALSE, "none").out.val
       = JObj([name |-> Rename.f.name, email |-> John.f.email])

\* the object a finished delete or deleteBlob addressed
DeletedPath ==
  IF call.op = "delete" THEN docPath(call.prefix, call.key)
  ELSE joinPath(call.prefix, call.key)

\* C10: a delete or raw delete the backend does not fail returns normally and
\* leaves the bucket without the object and otherwise as it was; when the
\* object was already absent the bucket is unchanged.
C10_DeleteIdempotent ==
  (Done({"delete", "deleteBlob"}) /\ ~BackendFailed) =>
    /\ call.out = Void
    /\ bucket = WithoutObject(call.pre, DeletedPath)
    /\ ~Stored(call.pre, DeletedPath) => bucket = call.pre

\* a delete of an absent key that returned normally
C10_Witness ==
  /\ Done({"delete", "deleteBlob"})
  /\ ~Stored(call.pre, DeletedPath)
  /\ call.pre # << >>
  /\ call.out = Void
-----------------------------------------------------------------------------
(* A caller putting, deleting and listing documents of several stores of   *)
(* one bucket: 'u', the same store written 'u/', its sibling 'u_x' and the *)
(* store of the whole bucket (empty prefix)                                *)

UX == <<"u", "_", "x">>

S == <<"s">>

ListStores == {U, U \o Slash, UX, << >>}

ListKeys ==
  {A, S \o Slash \o A, S \o Slash \o S \o Slash \o A, S \o <<"_", "x">> \o Slash \o A,
   A \o DotJson \o B}

SubPaths == {<< >>, S, S \o Slash}

NextList ==
  \/ \E p \in ListStores, k \in ListKeys, f \in Faults : Put(p, k, JNull, FALSE, f)
  \/ \E p \in ListStores, k \in ListKeys, f \in Faults : Delete(p, k, f)
  \/ \E p \in ListStores, sub \in SubPaths, f \in Faults : List(p, sub, f)
  \/ \E f \in Faults : ListPage(f)
  \/ Return

SpecList == Init /\ [][NextList]_vars

\* the keys a finished list returned
Listed == call.out.val

ListedOk == Done({"list"}) /\ call.out.status = "ok"

\* the path a finished list was made under, and that path with its separator
ListedPath == listPrefix(call.prefix, call.key)

Boundary == IF ListedPath = << >> THEN << >> ELSE ListedPath \o Slash

\* the objects stored under the listed path when the list started
Under == {K \in DOMAIN call.pre : StartsWith(K, Boundary)}

\* an object's key relative to the listed path: the boundary taken off the
\* front and '.json' off the end
RelativeKey(K) ==
  LET rel == SubSeq(K, Len(Boundary) + 1, Len(K))
  IN IF EndsWith(rel, DotJson) THEN SubSeq(rel, 1, Len(rel) - Len(DotJson)) ELSE rel

Range(seq) == {seq[i] : i \in 1..Len(seq)}

\* C2: list returns no entry for an object that is not under the listed path
\* followed by the separator: with no object under it, the result is empty.
C2_ListBoundary ==
  (ListedOk /\ Under = {}) => Listed = << >>

\* C3: after puts and deletes, list(subPath) returns exactly one entry per
\* document stored under join(prefix, subPath), its key relative to that path.
C3_ListLive ==
  ListedOk =>
    /\ Len(Listed) = Cardinality(Under)
    /\ Range(Listed) = {RelativeKey(K) : K \in Under}

\* C4: the entry of every object under the listed path is its key with the
\* path and separator removed from the front only and '.json' from the end only.
C4_ListEntry ==
  ListedOk => \A K \in Under : RelativeKey(K) \in Range(Listed)
-----------------------------------------------------------------------------
(* A caller copying and moving the objects of one store                    *)

CopyKeys == {A, A \o DotJson, B}

CopyPaths == {docPath(U, A), docPath(U, B), joinPath(U, A)}

CopyDocs == {John, Jane}

NextCopy ==
  \/ \E k \in CopyKeys, d \in CopyDocs, f \in Faults : Put(U, k, d, FALSE, f)
  \/ \E k \in CopyKeys, f \in Faults : PutBlob(U, k, Hello, f)
  \/ \E k \in CopyKeys, f \in Faults : Delete(U, k, f)
  \/ \E k \in CopyKeys, f \in Faults : Exists(U, k, f)
  \/ \E k \in CopyKeys, f \in Faults : ExistsBlob(U, k, f)
  \/ \E k, k2 \in CopyKeys, f \in Faults : Copy(U, k, k2, f)
  \/ \E k, k2 \in CopyKeys, f \in Faults : Move(U, k, k2, f)
  \/ \E s, d \in CopyPaths, f \in Faults : CopyFullyQualified(U, s, d, f)
  \/ \E s, d \in CopyPaths, f \in Faults : MoveFullyQualified(U, s, d, f)
  \/ \E f \in Faults : CopyObject(f)
  \/ \E f \in Faults : DeleteSource(f)
  \/ Return

SpecCopy == Init /\ [][NextCopy]_vars

Relative == call.op \in {"copy", "move"}

\* the objects a finished copy or move was asked to read and to write
SourceOf == IF Relative THEN docPath(call.prefix, call.key) ELSE call.key

DestinationOf == IF Relative THEN docPath(call.prefix, call.key2) ELSE call.key2

\* C7: after a successful move from a to b, two different objects, the source
\* no longer exists (exists(a) is false) and b holds what a held before the
\* move (get(b) answers what get(a) answered before).
C7_Move ==
  (Done({"move", "moveFullyQualified"}) /\ call.out.status = "ok"
     /\ SourceOf # DestinationOf) =>
    /\ existsFullyQualified(bucket, SourceOf, "none").out = Returned("bool", FALSE)
    /\ Stored(bucket, DestinationOf)
    /\ bucket[DestinationOf] = call.pre[SourceOf]
    /\ Relative =>
         /\ exists(bucket, call.prefix, call.key, "none").out = Returned("bool", FALSE)
         /\ get(bucket, call.prefix, call.key2, FALSE, "none").out
              = get(call.pre, call.prefix, call.key, FALSE, "none").out

\* a move by relative keys that replaced another document at its destination
C7_Witness ==
  /\ Done({"move"})
  /\ call.out.status = "ok"
  /\ SourceOf # DestinationOf
  /\ Stored(call.pre, DestinationOf)
  /\ call.pre[DestinationOf] # call.pre[SourceOf]
  /\ get(bucket, call.prefix, call.key2, FALSE, "none").out = Returned("value", John)

\* C8: a successful copy(a, b) addresses both keys as documents of the store
\* (extension, then prefix): afterwards get(b) equals get(a), the source is
\* stored with its content unchanged, and the bucket differs from the one
\* before only at b's object.
C8_Copy ==
  (Done({"copy"}) /\ call.out.status = "ok") =>
    /\ get(bucket, call.prefix, call.key2, FALSE, "none").out
         = get(bucket, call.prefix, call.key, FALSE, "none").out
    /\ Stored(bucket, docPath(call.prefix, call.key))
    /\ bucket[docPath(call.prefix, call.key)] = call.pre[docPath(call.prefix, call.key)]
    /\ bucket = WithObject(call.pre, docPath(call.prefix, call.key2),
                           call.pre[docPath(call.prefix, call.key)])

\* a copy to a key given without extension, which created the '.json' object
C8_Witness ==
  /\ Done({"copy"})
  /\ call.out.status = "ok"
  /\ call.key2 = B
  /\ ~Stored(call.pre, docPath(U, B))
  /\ get(bucket, U, B, FALSE, "none").out = Returned("value", Jane)

\* C9: a copy or move (by relative keys or fully qualified) whose source does
\* not exist throws after the existence probe alone: headObject is the only SDK
\* call issued, the bucket is unchanged, and the error is the source-not-found
\* error unless the probe itself failed in the backend.
C9_SourceMissing ==
  (Done({"copy", "move", "copyFullyQualified", "moveFullyQualified"})
     /\ ~Stored(call.pre, SourceOf)) =>
    /\ call.out.status = "threw"
    /\ ~BackendFailed => call.out.err = "SourceNotFound"
    /\ Len(call.log) = 1
    /\ call.log[1].api = "headObject"
    /\ call.log[1].key = SourceOf
    /\ bucket = call.pre

\* a copyFullyQualified of a missing source beside a stored object
C9_Witness ==
  /\ Done({"copyFullyQualified"})
  /\ ~Stored(call.pre, SourceOf)
  /\ call.pre # << >>
  /\ call.out = Threw("SourceNotFound")

-----------------------------------------------------------------------------
(* Existence probes                                                        *)

\* the object a finished exists or existsBlob addressed
ProbedPath ==
  IF call.op = "exists" THEN docPath(call.prefix, call.key)
  ELSE joinPath(call.prefix, call.key)

\* C11: exists and existsBlob issue exactly one headObject, at the key's fully
\* qualified path, and change nothing; when the backend answers, the result is
\* true exactly when an object is stored there and false (no error) when it is
\* not; any other failure of the probe is thrown to the caller as it is.
C11_Exists ==
  Done({"exists", "existsBlob"}) =>
    /\ Len(call.log) = 1
    /\ call.log[1].api = "headObject"
    /\ call.log[1].key = ProbedPath
    /\ bucket = call.pre
    /\ IF BackendFailed
         THEN call.out.status = "threw" /\ call.out.err = call.log[1].err
       ELSE /\ call.out.status = "ok"
            /\ call.out.kind = "bool"
            /\ call.out.val = Stored(call.pre, ProbedPath)

\* a probe the backend refused, with the object stored: the error was thrown
C11_Witness ==
  /\ Done({"exists"})
  /\ Stored(call.pre, ProbedPath)
  /\ call.out.status = "threw"
  /\ call.out.err = "AccessDenied"

-----------------------------------------------------------------------------
(* The '.json' extension of document keys                                  *)

DocOps == {"put", "get", "delete", "exists"}

\* the fault the backend answered the finished call's first SDK call with
FaultOf == IF call.log[1].err \in Faults THEN call.log[1].err ELSE "none"

\* the finished document operation, made again from the same bucket with key
Again(key) ==
  CASE call.op = "put" -> put(call.pre, call.prefix, key, call.data, call.flag, FaultOf)
    [] call.op = "get" -> get(call.pre, call.prefix, key, call.flag, FaultOf)
    [] call.op = "delete" -> delete(call.pre, call.prefix, key, FaultOf)
    [] call.op = "exists" -> exists(call.pre, call.prefix, key, FaultOf)

\* what the finished call did: the bucket after it, its result, its SDK calls
Did == [b |-> bucket, out |-> call.out, log |-> call.log]

\* the extension step on the key of the finished call: idempotent, and '.json'
\* appended exactly when the key does not end in it
ExtensionStep ==
  /\ ensureJsonExtension(ensureJsonExtension(call.key)) = ensureJsonExtension(call.key)
  /\ ensureJsonExtension(call.key)
       = (IF EndsWith(call.key, DotJson) THEN call.key ELSE call.key \o DotJson)

\* C12 as stated: the extension step is idempotent and appends '.json' iff the
\* key does not end in it, and for EVERY key k a document operation called
\* with k addresses the object it addresses when called with k + '.json'.
C12_SameObjectAnyKey ==
  Done(DocOps) => (ExtensionStep /\ Again(call.key \o DotJson).log = call.log)

\* C12 amended: the same, for every key k that does not already end in
\* '.json': put, get, delete and exists called with k do exactly what they do
\* called with k + '.json' (same object addressed, same bucket after, same
\* result); a key that ends in '.json' is used as it is.
C12_SameObject ==
  Done(DocOps) =>
    /\ ExtensionStep
    /\ call.log[1].key = joinPath(call.prefix, ensureJsonExtension(call.key))
    /\ IF EndsWith(call.key, DotJson)
         THEN call.log[1].key = joinPath(call.prefix, call.key)
       ELSE Again(call.key \o DotJson) = Did

\* a get by the bare key that read a document stored at the '.json' object
C12_Witness ==
  /\ Done({"get"})
  /\ call.key = A
  /\ Stored(call.pre, joinPath(call.prefix, A \o DotJson))
  /\ call.out.status = "ok"
  /\ call.out.kind = "value"
  /\ call.out.val = John

-----------------------------------------------------------------------------
(* A caller working on raw objects whose keys and store prefixes carry     *)
(* leading and trailing separators, or are empty, and listing the stores   *)

PathStores == {U, U \o Slash, << >>}

PathKeys == {B, Slash \o B, B \o Slash, << >>, Slash}

NextPath ==
  \/ \E p \in PathStores, k \in PathKeys, f \in Faults : PutBlob(p, k, Hello, f)
  \/ \E p \in PathStores, k \in PathKeys, o \in BOOLEAN, f \in Faults : GetBlob(p, k, o, f)
  \/ \E p \in PathStores, k \in PathKeys, f \in Faults : DeleteBlob(p, k, f)
  \/ \E p \in PathStores, k \in PathKeys, f \in Faults : ExistsBlob(p, k, f)
  \/ \E p \in PathStores, k \in {<< >>, B}, f \in Faults : Put(p, k, JNull, FALSE, f)
  \/ \E p \in PathStores, f \in Faults : List(p, << >>, f)
  \/ \E f \in Faults : ListPage(f)
  \/ Return

SpecPath == Init /\ [][NextPath]_vars

RawOps == {"putBlob", "getBlob", "deleteBlob", "existsBlob"}

\* the storage key a finished raw operation sent to the backend
SentKey == call.log[1].key

\* C13: the join that builds every storage key gives 'u/b' for ('u', 'b'),
\* ('u/', '/b') and ('u/', 'b/') alike, and 'b' for ('', 'b'): one separator
\* at the join point, runs collapsed, a trailing separator dropped, no
\* leading separator for an empty prefix.
C13_JoinNormal ==
  Done(RawOps) =>
    /\ (<<call.prefix, call.key>> \in {<<U, B>>, <<U \o Slash, Slash \o B>>,
                                       <<U \o Slash, B \o Slash>>})
         => SentKey = U \o Slash \o B
    /\ (call.prefix = << >> /\ call.key = B) => SentKey = B

-----------------------------------------------------------------------------
(* Two callers of one store putting and updating the same documents, their *)
(* SDK round trips interleaved                                             *)

ConcKeys == {A}

ConcDocs == {John}

NextConc ==
  \/ \E k \in ConcKeys, d \in ConcDocs, f \in Faults : Put(U, k, d, FALSE, f)
  \/ \E k \in ConcKeys, f \in Faults : UpdateGet(U, k, Rename, f)
  \/ \E f \in Faults : UpdatePut(f)
  \/ Return
  \/ \E k \in ConcKeys, d \in ConcDocs, f \in Faults : PeerPut(U, k, d, f)
  \/ \E k \in ConcKeys, f \in Faults : PeerUpdateGet(U, k, NewProp, f)
  \/ \E f \in Faults : PeerUpdatePut(f)
  \/ PeerReturn

SpecConc == Init /\ [][NextConc]_vars

\* both callers returned success, the first from an update, the second from a
\* put or an update of the same document, and the second caller's write
\* reached the bucket between the read and the write of that update
Raced ==
  /\ Done({"update"})
  /\ call.out.status = "ok"
  /\ peer.pc = "done"
  /\ peer.op \in {"put", "update"}
  /\ peer.out.status = "ok"
  /\ docPath(peer.prefix, peer.key) = docPath(call.prefix, call.key)
  /\ peer.local.pc = "update_put"
  /\ peer.local.pre = call.pre
  /\ peer.local.key = call.key
  /\ peer.local.data = call.data

\* the document the racing update read, and the one stored in the end
RacedRead == JsonParse(call.pre[docPath(call.prefix, call.key)]).v

RacedFinal == JsonParse(bucket[docPath(call.prefix, call.key)]).v

\* C14: update is not atomic.  When another caller's put or update of the same
\* key writes between an update's read and its write, and both return success,
\* the document stored in the end is the update's patch merged over what the
\* update READ: no member the other caller wrote is in it, unless the patch
\* names it or the document read already had it with that value.
C14_LostUpdate ==
  Raced =>
    /\ RacedFinal = JObj(Override(Spread(RacedRead), Spread(call.data)))
    /\ \A n \in DOMAIN peer.data.f \ DOMAIN call.data.f :
         (n \in DOMAIN RacedFinal.f /\ RacedFinal.f[n] = peer.data.f[n])
           => (n \in DOMAIN RacedRead.f /\ RacedRead.f[n] = peer.data.f[n])

\* two updates of one document, both successful, and the member the second
\* caller added is missing from the stored document
C14_Witness ==
  /\ Raced
  /\ peer.op = "update"
  /\ peer.data = NewProp
  /\ call.data = Rename
  /\ "newProp" \notin DOMAIN RacedRead.f
  /\ "newProp" \notin DOMAIN RacedFinal.f

-----------------------------------------------------------------------------
(* A move whose delete fails                                               *)

\* a finished move whose copyObject succeeded and whose deleteObject failed
DeleteFailed ==
  /\ Done({"move", "moveFullyQualified"})
  /\ Len(call.log) >= 3
  /\ call.log[2].api = "copyObject"
  /\ call.log[2].err = ""
  /\ call.log[3].err # ""

\* C15: when the delete step of a move fails after its copy succeeded, the
\* move throws the delete's error, the object is stored at the source and at
\* the destination (both with the source's content), and the failed delete of
\* the source is the last SDK call: nothing removes the copy again.
C15_MoveNoRollback ==
  DeleteFailed =>
    /\ call.log[3].api = "deleteObject"
    /\ call.log[3].key = SourceOf
    /\ Len(call.log) = 3
    /\ call.out.status = "threw"
    /\ call.out.err = call.log[3].err
    /\ Stored(bucket, SourceOf)
    /\ Stored(bucket, DestinationOf)
    /\ bucket[SourceOf] = call.pre[SourceOf]
    /\ bucket[DestinationOf] = call.pre[SourceOf]
    /\ bucket = WithObject(call.pre, DestinationOf, call.pre[SourceOf])

\* a moveFullyQualified to a new path whose delete was refused: two objects
\* where there was one
C15_Witness ==
  /\ DeleteFailed
  /\ call.op = "moveFullyQualified"
  /\ SourceOf # DestinationOf
  /\ ~Stored(call.pre, DestinationOf)
  /\ Cardinality(DOMAIN bucket) = Cardinality(DOMAIN call.pre) + 1
  /\ call.out.err = "AccessDenied"

-----------------------------------------------------------------------------
(* Server-side encryption: a store constructed with a KMS key identifier   *)
(* (new S3DB(bucket, prefix, kmsKeyId)) asks for it on every upload        *)

\* no key identifier given to the constructor
NoKey == << >>

Alias == <<"k">>

NoEncryption == [ServerSideEncryption |-> "", SSEKMSKeyId |-> NoKey]

\* the encryption parameters a store with kmsKeyId adds to its uploads
EncryptionParams(kmsKeyId) ==
  IF kmsKeyId # NoKey THEN [ServerSideEncryption |-> "aws:kms", SSEKMSKeyId |-> kmsKeyId]
  ELSE NoEncryption

\* the upload of one SDK log, with the encryption it requested
Encrypted(log, params) ==
  [i \in 1..Len(log) |-> [api |-> log[i].api, key |-> log[i].key, err |-> log[i].err,
                          sse |-> params]]

\* a raw put that never asks for encryption
putRawPlain(b, prefix, kmsKeyId, key, data, fault) ==
  LET e == putBlob(b, prefix, key, data, fault)
  IN [e EXCEPT !.log = Encrypted(e.log, NoEncryption)]

\* putRaw of a store constructed with kmsKeyId
putRaw(b, prefix, kmsKeyId, key, data, fault) ==
  LET e == putBlob(b, prefix, key, data, fault)
  IN [e EXCEPT !.log = Encrypted(e.log, EncryptionParams(kmsKeyId))]

\* put of a store constructed with kmsKeyId
putDocument(b, prefix, kmsKeyId, key, data, formatForReadability, fault) ==
  putRaw(b, prefix, kmsKeyId, ensureJsonExtension(key),
         Stringify(data, formatForReadability), fault)

\* a call of one upload through a store with kmsKeyId; the finished call keeps
\* the store's key identifier
WholeOf(op, prefix, kmsKeyId, key, data, flag, e) ==
  /\ Ready
  /\ Fits(e.b)
  /\ bucket' = e.b
  /\ call' = [op |-> op, pc |-> "done", prefix |-> prefix, key |-> key, key2 |-> << >>,
              data |-> data, flag |-> flag, local |-> [kmsKeyId |-> kmsKeyId],
              out |-> e.out, log |-> e.log, pre |-> bucket]
  /\ written' = Tracked(bucket', call')
  /\ moments' = <<bucket>>
  /\ UNCHANGED peer

PutDocument(prefix, kmsKeyId, key, data, formatForReadability, fault) ==
  WholeOf("put", prefix, kmsKeyId, key, data, formatForReadability,
          putDocument(bucket, prefix, kmsKeyId, key, data, formatForReadability, fault))

PutRaw(prefix, kmsKeyId, key, data, fault) ==
  WholeOf("putBlob", prefix, kmsKeyId, key, data, FALSE,
          putRaw(bucket, prefix, kmsKeyId, key, data, fault))

KmsKeys == {NoKey, Alias}

NextKms ==
  \/ \E id \in KmsKeys, k \in DocKeys, d \in Docs, o \in BOOLEAN, f \in Faults :
       PutDocument(U, id, k, d, o, f)
  \/ \E id \in KmsKeys, k \in DocKeys, d \in Blobs, f \in Faults : PutRaw(U, id, k, d, f)
  \/ \E k \in DocKeys, o \in BOOLEAN, f \in Faults : Get(U, k, o, f)
  \/ \E k \in DocKeys, o \in BOOLEAN, f \in Faults : GetBlob(U, k, o, f)
  \/ \E k \in DocKeys, f \in Faults : Delete(U, k, f)
  \/ Return

SpecKms == Init /\ [][NextKms]_vars

\* C16: every put and raw put through a store constructed with a key
\* identifier issues its upload with server-side encryption 'aws:kms' under
\* exactly that key, whether or not the upload succeeds; through a store
\* constructed without one, the upload requests no encryption.
C16_Encryption ==
  Done({"put", "putBlob"}) =>
    /\ Len(call.log) = 1
    /\ call.log[1].api = "upload"
    /\ IF call.local.kmsKeyId # NoKey
         THEN /\ call.log[1].sse.ServerSideEncryption = "aws:kms"
              /\ call.log[1].sse.SSEKMSKeyId = call.local.kmsKeyId
       ELSE call.log[1].sse = NoEncryption

\* a raw put through a store with a key, overwriting an object
C16_Witness ==
  /\ Done({"putBlob"})
  /\ call.local.kmsKeyId = Alias
  /\ call.out.status = "ok"
  /\ Stored(call.pre, joinPath(call.prefix, call.key))
  /\ call.log[1].sse.SSEKMSKeyId = Alias

-----------------------------------------------------------------------------
(* Raw keys and document keys                                              *)

BlobOps == {"putBlob", "getBlob", "getString", "deleteBlob", "existsBlob"}

\* the object a raw operation on the finished call's key addresses
RawPath == joinPath(call.prefix, call.key)

\* a raw read of the finished call's key made now returns exactly body
ReadsBack(e, body) == e.out.status = "ok" /\ e.out.kind = "body" /\ e.out.val = body

\* what C17 says of the keys sent to the backend and of the raw round trip
KeysAndRoundTrip ==
  /\ Done(BlobOps) => (Len(call.log) = 1 /\ call.log[1].key = RawPath)
  /\ Done(DocOps) =>
       call.log[1].key = joinPath(call.prefix, IF EndsWith(call.key, DotJson) THEN call.key
                                               ELSE call.key \o DotJson)
  /\ (Done({"putBlob"}) /\ call.out.status = "ok") =>
       /\ bucket[RawPath] = call.data
       /\ ReadsBack(getBlob(bucket, call.prefix, call.key, FALSE, "none"), call.data)
       /\ ReadsBack(getString(bucket, call.prefix, call.key, FALSE, "none"), call.data)

\* C17 as stated: raw operations use the key with no extension added, document
\* operations add it exactly once, a raw get after a raw put of x returns x,
\* and for EVERY key k the raw object at k is another object than the
\* document at k.
C17_RawVerbatimAnyKey ==
  /\ KeysAndRoundTrip
  /\ Done(BlobOps) => RawPath # docPath(call.prefix, call.key)

\* C17 amended: the same, with the raw object at k another object than the
\* document at k for every key k that does not end in '.json' (a raw put of
\* such a key leaves the document at k as it was); the raw object at a key
\* that ends in '.json' is the document at that key.
C17_RawVerbatim ==
  /\ KeysAndRoundTrip
  /\ Done(BlobOps) =>
       IF EndsWith(call.key, DotJson) THEN RawPath = docPath(call.prefix, call.key)
       ELSE /\ RawPath # docPath(call.prefix, call.key)
            /\ ~EndsWith(call.log[1].key, DotJson)
            /\ Stored(bucket, docPath(call.prefix, call.key))
                 = Stored(call.pre, docPath(call.prefix, call.key))
            /\ Stored(bucket, docPath(call.prefix, call.key))
                 => bucket[docPath(call.prefix, call.key)]
                      = call.pre[docPath(call.prefix, call.key)]

\* a raw put under a bare key beside the document of the same key, which is
\* still what it was
C17_Witness ==
  /\ Done({"putBlob"})
  /\ call.out.status = "ok"
  /\ call.key = A
  /\ call.data = Hello
  /\ Stored(call.pre, docPath(call.prefix, A))
  /\ bucket[docPath(call.prefix, A)] = Stringify(Jane, FALSE)
  /\ bucket[RawPath] = Hello

-----------------------------------------------------------------------------
(* Argument validation: JavaScript values of any type given as bucket      *)
(* name, prefix and subPath                                                *)

\* a JavaScript value: what typeof answers for it, and its text when a string
Text(s) == [type |-> "string", s |-> s]

Number == [type |-> "number", s |-> << >>]

NullValue == [type |-> "object", s |-> << >>]

\* an argument left out (or given as undefined): a default parameter applies
Undefined == [type |-> "undefined", s |-> << >>]

\* a default parameter value: (value = dflt)
DefaultTo(value, dflt) == IF value = Undefined THEN dflt ELSE value

\* a constructor that stores whatever it is given
constructorUnchecked(bucketName, prefix) ==
  Returned("store", [bucketName |-> bucketName, prefix |-> DefaultTo(prefix, Text(<< >>))])

\* constructor(bucketName, prefix = '')
constructor(bucketName, prefix) ==
  LET p == DefaultTo(prefix, Text(<< >>))
  IN IF bucketName.type # "string" THEN Threw("InvalidBucketName")
     ELSE IF p.type # "string" THEN Threw("InvalidPrefix")
     ELSE Returned("store", [bucketName |-> bucketName, prefix |-> p])

\* new S3DB(bucketName, prefix): synchronous, no SDK call
New(bucketName, prefix) ==
  /\ Ready
  /\ call' = [op |-> "new", pc |-> "done", prefix |-> prefix, key |-> bucketName,
              key2 |-> << >>, data |-> JNull, flag |-> FALSE, local |-> << >>,
              out |-> constructor(bucketName, prefix), log |-> << >>, pre |-> bucket]
  /\ UNCHANGED <<bucket, written, peer, moments>>

\* list(subPath = '') with a subPath of any type, up to the return of the first
\* listObjects: the typeof check comes before the first await
ListValue(prefix, subPath, fault) ==
  /\ Ready
  /\ LET sp == DefaultTo(subPath, Text(<< >>))
         valid == sp.type = "string"
         st0 == [fullPrefix |-> listPrefix(prefix, sp.s), allKeys |-> << >>,
                 isTruncated |-> TRUE, Marker |-> << >>]
         r == listPage(bucket, st0, fault)
         more == valid /\ r.err = "" /\ r.st.isTruncated
     IN call' = [op |-> "list", prefix |-> prefix, key |-> subPath, key2 |-> << >>,
                 data |-> JNull, flag |-> FALSE, pre |-> bucket,
                 log |-> IF valid THEN r.log ELSE << >>,
                 pc |-> IF more THEN "list_page" ELSE "done",
                 local |-> IF more THEN r.st ELSE << >>,
                 out |-> IF ~valid THEN Threw("InvalidSubPath")
                         ELSE IF r.err # "" THEN Threw(r.err)
                         ELSE IF more THEN Void
                         ELSE Returned("keys", r.st.allKeys)]
  /\ moments' = (IF DefaultTo(subPath, Text(<< >>)).type = "string" THEN <<bucket>> ELSE << >>)
  /\ UNCHANGED <<bucket, written, peer>>

Values == {Text(U), Text(S), Number, NullValue, Undefined}

ArgKeys == {A, S \o Slash \o A}

NextArgs ==
  \/ \E bucketName, prefix \in Values : New(bucketName, prefix)
  \/ \E k \in ArgKeys, f \in Faults : Put(U, k, JNull, FALSE, f)
  \/ \E p \in {U, << >>}, subPath \in Values, f \in Faults : ListValue(p, subPath, f)
  \/ \E f \in Faults : ListPage(f)
  \/ Return

SpecArgs == Init /\ [][NextArgs]_vars

\* a value given for an argument that is not text
NonTextual(value) == value # Undefined /\ value.type # "string"

\* the finished call was given a non-textual bucket name, prefix or subPath
BadArgument ==
  \/ Done({"new"}) /\ (call.key.type # "string" \/ NonTextual(call.prefix))
  \/ Done({"list"}) /\ NonTextual(call.key)

\* C18: a bucket name or prefix given to the constructor, or a subPath given
\* to list, that is not text is rejected with a validation error in the call's
\* first step, before any SDK call is issued and with the bucket untouched
\* (a prefix or subPath left undefined takes its default '').
C18_Validation ==
  BadArgument =>
    /\ call.out.status = "threw"
    /\ call.out.err \in {"InvalidBucketName", "InvalidPrefix", "InvalidSubPath"}
    /\ call.log = << >>
    /\ bucket = call.pre

\* a list given a number as subPath on a store that holds documents
C18_Witness ==
  /\ Done({"list"})
  /\ call.key = Number
  /\ call.pre # << >>
  /\ call.out.status = "threw"
  /\ call.out.err = "InvalidSubPath"

-----------------------------------------------------------------------------
(* Pagination of list                                                      *)

\* a list in progress or finished
Listing == call.op = "list" /\ call.pc \in {"list_page", "done"}

\* every object the backend holds for the listing's Prefix, in backend order
Matching == Sorted({K \in DOMAIN call.pre : StartsWith(K, ListedPath)})

\* the pages the backend cuts them into
Pages == IF Matching = << >> THEN 1 ELSE (Len(Matching) + PageSize - 1) \div PageSize

\* the first n pages together
FirstPages(n) ==
  SubSeq(Matching, 1, IF n * PageSize < Len(Matching) THEN n * PageSize ELSE Len(Matching))

\* the requests made so far: the first without Marker, each later one after a
\* successful page that was truncated, with the last key of that page as Marker
Requests ==
  \A i \in 1..Len(call.log) :
    /\ call.log[i].api = "listObjects"
    /\ IF i = 1 THEN call.log[i].key = << >>
       ELSE /\ call.log[i - 1].err = ""
            /\ (i - 1) * PageSize < Len(Matching)
            /\ call.log[i].key = Matching[(i - 1) * PageSize]

\* C19: list fetches its pages one after another, the first request without
\* Marker and each later one with the last key of the page before it; it goes
\* on exactly while the backend reports a truncated page (so it has made fewer
\* requests than there are pages while it runs, and ends within that many)
\* and stops at the first page that is not truncated; with the bucket
\* unchanged, a successful result is the stripped keys of all pages in backend
\* order, one entry per object the backend holds for the Prefix, none missing
\* and none repeated.
C19_Pagination ==
  Listing =>
    /\ bucket = call.pre
    /\ Requests
    /\ call.pc = "list_page" =>
         /\ Len(call.log) < Pages
         /\ call.log[Len(call.log)].err = ""
         /\ call.local.allKeys = MapEntries(ListedPath, FirstPages(Len(call.log)))
    /\ ListedOk =>
         /\ Len(call.log) = Pages
         /\ Len(Listed) = Len(Matching)
         /\ Listed = MapEntries(ListedPath, Matching)

\* a list that took a second request, with the last key of the first page as
\* Marker, and returned more entries than one page holds
C19_Witness ==
  /\ ListedOk
  /\ Len(call.log) = 2
  /\ Len(Listed) > PageSize
  /\ call.log[2].key = Matching[PageSize]

-----------------------------------------------------------------------------
(* Directory markers in a listing                                          *)

\* the objects the backend returns for the finished list's Prefix
Returnable == {K \in DOMAIN call.pre : StartsWith(K, ListedPath)}

\* C20: listing a store that has a prefix, an object whose key is not strictly
\* longer than the listed path with its separator (a directory marker, or the
\* bare prefix itself) contributes no entry to the result of list, and no
\* entry is the empty string.
C20_NoMarkerEntry ==
  (ListedOk /\ ListedPath # << >>) =>
    /\ Len(Listed) = Cardinality({K \in Returnable : Len(K) > Len(ListedPath \o Slash)})
    /\ << >> \notin Range(Listed)

-----------------------------------------------------------------------------
(* Errors of the backend                                                   *)

ThrowingOps == {"put", "get", "delete", "exists", "list", "copy", "move"}

\* the error the backend answered the last SDK call of the finished call with
LastError == call.log[Len(call.log)].err

\* C21: a failure the backend returns to put, get, delete, exists, list, copy
\* or move (a refused or broken request, not the absence of the object) is
\* thrown to the caller as that same error, its code intact; a list that fails
\* on any page throws the backend's error and returns no keys.
C21_ErrorsUnchanged ==
  (Done(ThrowingOps) /\ BackendFailed) =>
    /\ LastError \in Faults
    /\ call.out.status = "threw"
    /\ call.out.kind # "keys"
    /\ call.out.err = LastError

-----------------------------------------------------------------------------
(* Objects that are not JSON text                                          *)

\* the object the finished get addressed
GotPath == docPath(call.prefix, call.key)

\* an object was stored there when the get started, and its bytes do not parse
Unparsable == Stored(call.pre, GotPath) /\ ~JsonParse(call.pre[GotPath]).ok

\* C22: a get the backend does not fail, of an object whose bytes are not JSON
\* text, throws the parse error whether or not returnNullIfNotFound is set, and
\* never returns null for an object that is stored; a get of an absent object
\* reports its absence (NoSuchKey, or null when asked to) and never a parse
\* error.
C22_ParseError ==
  (Done({"get"}) /\ ~BackendFailed) =>
    /\ Unparsable => call.out = Threw("ParseError")
    /\ Stored(call.pre, GotPath) => call.out # Null
    /\ ~Stored(call.pre, GotPath) =>
         /\ call.out.err # "ParseError"
         /\ call.out = (IF call.flag THEN Null ELSE Threw("NoSuchKey"))

\* a get with returnNullIfNotFound of a stored object that is no JSON text
C22_Witness ==
  /\ Done({"get"})
  /\ call.flag
  /\ Stored(call.pre, GotPath)
  /\ call.pre[GotPath] = Hello
  /\ call.out = Threw("ParseError")

-----------------------------------------------------------------------------
(* A caller reading a store in every way, between puts and deletes         *)

ReadKeys == {A, B}

NextRead ==
  \/ \E k \in ReadKeys, d \in {John}, f \in Faults : Put(U, k, d, FALSE, f)
  \/ \E k \in ReadKeys, f \in Faults : PutBlob(U, k, Hello, f)
  \/ \E k \in ReadKeys, f \in Faults : Delete(U, k, f)
  \/ \E k \in ReadKeys, o \in BOOLEAN, f \in Faults : Get(U, k, o, f)
  \/ \E k \in ReadKeys, o \in BOOLEAN, f \in Faults : GetBlob(U, k, o, f)
  \/ \E k \in ReadKeys, o \in BOOLEAN, f \in Faults : GetString(U, k, o, f)
  \/ \E k \in ReadKeys, f \in Faults : Exists(U, k, f)
  \/ \E k \in ReadKeys, f \in Faults : ExistsBlob(U, k, f)
  \/ \E f \in Faults : List(U, << >>, f)
  \/ \E f \in Faults : ListPage(f)
  \/ Return

SpecRead == Init /\ [][NextRead]_vars

ReadOps == {"get", "getBlob", "getString", "exists", "existsBlob", "list"}

\* the SDK calls that change nothing in the bucket
ReadApis == {"getObject", "headObject", "listObjects"}

\* C23: get, getBlob, getString, exists, existsBlob and list issue no SDK call
\* that writes: while one of them runs and when it has ended, with a value,
\* null, false or an error, the bucket holds the objects and the contents it
\* held when the call started.
C23_ReadsFrame ==
  (call.pc # "idle" /\ call.op \in ReadOps) =>
    /\ bucket = call.pre
    /\ \A i \in 1..Len(call.log) : call.log[i].api \in ReadApis

\* a getString of an absent key that answered null, beside a stored object
C23_Witness ==
  /\ Done({"getString"})
  /\ call.flag
  /\ call.out.status = "ok"
  /\ call.out.kind = "null"
  /\ call.pre # << >>
  /\ ~Stored(bucket, joinPath(call.prefix, call.key))

-----------------------------------------------------------------------------
(* The order of the SDK calls of a move                                    *)

Moving == call.pc # "idle" /\ call.op \in {"move", "moveFullyQualified"}

\* the SDK calls of a move so far are the first n of: headObject of the
\* source, copyObject to the destination, deleteObject of the source
InOrder ==
  /\ Len(call.log) \in 1..3
  /\ call.log[1] = Sdk("headObject", SourceOf, call.log[1].err)
  /\ Len(call.log) >= 2 => call.log[2] = Sdk("copyObject", DestinationOf, call.log[2].err)
  /\ Len(call.log) >= 3 => call.log[3] = Sdk("deleteObject", SourceOf, call.log[3].err)

\* the copyObject of the move was issued and failed
CopyFailed == Len(call.log) >= 2 /\ call.log[2].err # ""

\* C24: a move issues its SDK calls in the order existence probe, copy, delete;
\* the copy only after the probe answered that the source exists, the delete
\* only after the copy succeeded.  When the probe reports absence or fails, or
\* the copy fails, the move throws with no delete issued and the bucket as it
\* was when the move started.
C24_MoveOrder ==
  Moving =>
    /\ InOrder
    /\ Len(call.log) >= 2 => (call.log[1].err = "" /\ Stored(call.pre, SourceOf))
    /\ Len(call.log) >= 3 => call.log[2].err = ""
    /\ (call.pc = "done" /\ (call.log[1].err # "" \/ CopyFailed)) =>
         /\ Len(call.log) < 3
         /\ call.out.status = "threw"
         /\ bucket = call.pre

\* a moveFullyQualified whose copyObject was refused: two SDK calls, the
\* source still stored
C24_Witness ==
  /\ Done({"moveFullyQualified"})
  /\ Len(call.log) = 2
  /\ call.log[2].err = "AccessDenied"
  /\ SourceOf # DestinationOf
  /\ Stored(bucket, SourceOf)
  /\ bucket = call.pre

-----------------------------------------------------------------------------
(* A caller listing store 'u' page by page while a second caller puts and  *)
(* deletes documents of that store and of its sibling 'u_x'                *)

ScanStores == {U, UX}

ScanKeys == {A, B}

NextScan ==
  \/ \E f \in Faults : List(U, << >>, f)
  \/ \E f \in Faults : ListPage(f)
  \/ Return
  \/ \E p \in ScanStores, k \in ScanKeys, f \in Faults : PeerPut(p, k, JNull, f)
  \/ \E p \in ScanStores, k \in ScanKeys, f \in Faults : PeerDelete(p, k, f)
  \/ PeerReturn

SpecScan == Init /\ [][NextScan]_vars

\* the page that brought the j-th entry: every page but the last is full
PageOf(j) == (j - 1) \div PageSize + 1

\* the objects of bucket b under the listed path
UnderAt(b) == {K \in DOMAIN b : StartsWith(K, Boundary)}

\* the objects under the listed path that were stored with the same content
\* when the list started, at each of its pages and now
Steady ==
  {K \in UnderAt(call.pre) :
     /\ \A i \in 1..Len(moments) : Stored(moments[i], K) /\ moments[i][K] = call.pre[K]
     /\ Stored(bucket, K) /\ bucket[K] = call.pre[K]}

Occurrences(r) == Cardinality({j \in 1..Len(Listed) : Listed[j] = r})

\* C25: while other callers put and delete during a list, every entry of the
\* result is the relative key of an object that was stored under the listed
\* path when the page that brought it was fetched, and every object stored
\* under that path, unmodified, throughout the call is in the result exactly
\* once.
C25_ConcurrentList ==
  ListedOk =>
    /\ \A j \in 1..Len(Listed) :
         /\ PageOf(j) <= Len(moments)
         /\ \E K \in UnderAt(moments[PageOf(j)]) : RelativeKey(K) = Listed[j]
    /\ \A K \in Steady : Occurrences(RelativeKey(K)) = 1

-----------------------------------------------------------------------------
(* A caller of store 'u' giving relative keys with a leading separator or  *)
(* a '..' segment                                                          *)

DotDot == <<".", ".">>

ScopeKeys == {B, Slash \o B, DotDot \o Slash \o B}

NextScope ==
  \/ \E k \in ScopeKeys, f \in Faults : Put(U, k, John, FALSE, f)
  \/ \E k \in ScopeKeys, o \in BOOLEAN, f \in Faults : Get(U, k, o, f)
  \/ \E k \in ScopeKeys, f \in Faults : Delete(U, k, f)
  \/ \E k \in ScopeKeys, f \in Faults : Exists(U, k, f)
  \/ \E k, k2 \in ScopeKeys, f \in Faults : Copy(U, k, k2, f)
  \/ \E k, k2 \in ScopeKeys, f \in Faults : Move(U, k, k2, f)
  \/ \E f \in Faults : CopyObject(f)
  \/ \E f \in Faults : DeleteSource(f)
  \/ Return

SpecScope == Init /\ [][NextScope]_vars

ScopedOps == {"put", "get", "delete", "exists", "copy", "move"}

\* C26: every object key that put, get, delete, exists, copy or move of a
\* store with a non-empty prefix sends to the backend lies under the prefix
\* followed by the separator, whatever the relative key (leading separators
\* and '..' segments included), and nothing outside the prefix is written.
C26_Containment ==
  (call.pc # "idle" /\ call.op \in ScopedOps /\ call.prefix # << >>) =>
    /\ \A i \in 1..Len(call.log) : StartsWith(call.log[i].key, call.prefix \o Slash)
    /\ \A K \in DOMAIN bucket : StartsWith(K, call.prefix \o Slash)

-----------------------------------------------------------------------------
(* Listed keys as document keys                                            *)

\* C27: with the bucket unchanged, every entry r of a successful list() names
\* a document of the store: exists(r) is true, and the extension step and the
\* prefix join applied to r give the path of the very object the entry was
\* made from (the j-th object the backend returned), whether or not that
\* object's key ends in '.json'.
C27_ListGet ==
  (ListedOk /\ call.key = << >>) =>
    \A j \in 1..Len(Listed) :
      /\ exists(call.pre, call.prefix, Listed[j], "none").out.val
      /\ j <= Len(Matching)
      /\ docPath(call.prefix, Listed[j]) = Matching[j]

-----------------------------------------------------------------------------
(* A move onto its own source                                              *)

-----------------------------------------------------------------------------
(* A caller moving document 'a' to 'b' while a second caller puts 'a'      *)

NextRace ==
  \/ \E f \in Faults : Move(U, A, B, f)
  \/ \E f \in Faults : CopyObject(f)
  \/ \E f \in Faults : DeleteSource(f)
  \/ Return
  \/ \E d \in {John, Jane}, f \in Faults : PeerPut(U, A, d, f)
  \/ PeerReturn

SpecRace == Init /\ [][NextRace]_vars

\* a move has returned success
MovedOver == Done({"move"}) /\ call.out.status = "ok" /\ Len(moments) = 3

\* what the source held when the move copied it and when the move deleted it
Copied == moments[2][SourceOf]

Deleted == moments[3][SourceOf]

\* a put of the source key by the second caller has returned success and wrote
\* a new value between the copy and the delete of the move
PutDuringMove ==
  /\ MovedOver
  /\ peer.op = "put"
  /\ peer.out.status = "ok"
  /\ Stored(moments[3], SourceOf)
  /\ Deleted # Copied

\* C29 as stated: the value of a put to the source key that succeeded during
\* a successful move is stored at the source or at the destination once both
\* have returned.
C29_PutSurvivesMove ==
  PutDuringMove =>
    \/ Stored(bucket, SourceOf) /\ bucket[SourceOf] = Deleted
    \/ Stored(bucket, DestinationOf) /\ bucket[DestinationOf] = Deleted

\* C29 amended: a successful move leaves at the destination what the source
\* held when it was copied; so a put of the source that wrote before the copy
\* is carried to the destination, and the value of a put that wrote between
\* the copy and the delete is not: the move's deleteObject, issued after it,
\* succeeds and removes it from the source.
C29_PutDuringMove ==
  MovedOver =>
    /\ Stored(moments[2], SourceOf)
    /\ Stored(bucket, DestinationOf)
    /\ bucket[DestinationOf] = Copied
    /\ call.log[3] = Sdk("deleteObject", SourceOf, "")
    /\ PutDuringMove => bucket[DestinationOf] # Deleted

\* a put between the copy and the delete of a move: both returned success and
\* the value put is stored nowhere
C29_Witness ==
  /\ PutDuringMove
  /\ peer.pc = "done"
  /\ peer.data = Jane
  /\ Deleted = Stringify(Jane, FALSE)
  /\ ~Stored(bucket, SourceOf)
  /\ Deleted \notin {bucket[K] : K \in DOMAIN bucket}

-----------------------------------------------------------------------------
(* Update of a document that is not stored                                 *)

\* the finished update found no object at its key when it started
UpdatedNothing ==
  Done({"update"}) /\ ~Stored(call.pre, docPath(call.prefix, call.key))

\* C30: an update of a key with no document stored throws the error of its
\* read (the backend's NoSuchKey, unless the read failed otherwise); the read
\* is its only SDK call, no put is issued and the bucket is as it was, so no
\* document made of the patch alone exists.
C30_UpdateAbsent ==
  UpdatedNothing =>
    /\ call.out.status = "threw"
    /\ ~BackendFailed => call.out.err = "NoSuchKey"
    /\ call.log = <<Sdk("getObject", docPath(call.prefix, call.key), call.out.err)>>
    /\ bucket = call.pre
    /\ ~Stored(bucket, docPath(call.prefix, call.key))

\* an update of an absent key beside a stored document, refused as not found
C30_Witness ==
  /\ UpdatedNothing
  /\ call.pre # << >>
  /\ call.data = NewProp
  /\ call.out.status = "threw"
  /\ call.out.err = "NoSuchKey"

=============================================================================
